---- MODULE Spec2Model ----
(***************************************************************************)
(* Move_Wise (app.py): the /results handler `search`, the aggregator       *)
(* `calculate_travel_options`, the two provider clients `get_route_data`   *)
(* and `get_flight_data`, the IATA table `get_iata_code` and the emission  *)
(* calculator `bereken_co2`.                                               *)
(*                                                                         *)
(* Conventions of the model                                                *)
(*  - a Python dict is a record, a Python list a sequence, `None` (where a *)
(*    dict is expected) the record None, `None` (where an IATA code is     *)
(*    expected) the string NoCode;                                         *)
(*  - a distance text is a sequence of one-character strings, so that      *)
(*    str.replace and float() are computed character by character;         *)
(*  - a CO2 figure is an integer number of hundredths of a kilogram        *)
(*    (95.0 kg is 9500): round(x, 2) yields exactly such a number.         *)
(*    Rounding is computed on the exact decimal value (ties to even);      *)
(*    Python rounds the binary double, which agrees with it away from      *)
(*    exact ties, and the figures the providers send here are off ties;    *)
(*  - the euro sign of the cost strings is written EUR;                    *)
(*  - the outcome of a Python call is Return(v) or Raise(exception name).  *)
(***************************************************************************)
EXTENDS Integers, Sequences, FiniteSets, TLC

VARIABLES
    pc,                   \* position of the request in search / calculate_travel_options
    searches,             \* number of POST requests handled so far
    origin,               \* form field origin
    destination,          \* form field destination
    departure_timestamp,  \* get_departure_timestamp(...)
    origin_iata,          \* get_iata_code(origin)
    destination_iata,     \* get_iata_code(destination)
    flight_data,          \* local of calculate_travel_options
    driving_data,         \* local of calculate_travel_options
    transit_data,         \* local of calculate_travel_options
    travel_options,       \* local of calculate_travel_options
    calls,                \* the outbound HTTP calls of this request: issue and done events, in order
    exc,                  \* the exception raised inside the try block, "none" if none
    raised_at,            \* the step of the try block that raised it, "none" if none
    error,                \* the exception that leaves calculate_travel_options
    result                \* the list handed to the caller (the template)

vars == <<pc, searches, origin, destination, departure_timestamp, origin_iata,
          destination_iata, flight_data, driving_data, transit_data,
          travel_options, calls, exc, raised_at, error, result>>

\* ---------------------------------------------------------------- bounds
MaxSearches == 2

\* ---------------------------------------------------------------- Python values
None == [none |-> TRUE]

NoCode == "None"

\* the truth value of a dict or None: None and the empty dict are false
Truthy(v) == v # None /\ DOMAIN v # {}

Return(v) == [kind |-> "return", value |-> v]

Raise(e) == [kind |-> "raise", exc |-> e]

\* ---------------------------------------------------------------- get_iata_code
city_to_iata ==
    [c \in {"Amsterdam", "Barcelona", "Kopenhagen", "Parijs", "Berlijn"} |->
        CASE c = "Amsterdam" -> "AMS"
          [] c = "Barcelona" -> "BCN"
          [] c = "Kopenhagen" -> "CPH"
          [] c = "Parijs" -> "CDG"
          [] c = "Berlijn" -> "BER"]

get_iata_code(city) ==
    IF city \in DOMAIN city_to_iata THEN city_to_iata[city] ELSE NoCode

get_iata_codes(o, d) == <<get_iata_code(o), get_iata_code(d)>>

\* ---------------------------------------------------------------- str.replace, float, round
IsPrefixAt(s, pat, i) ==
    /\ i + Len(pat) - 1 <= Len(s)
    /\ \A k \in 1..Len(pat) : s[i + k - 1] = pat[k]

RECURSIVE ReplaceFrom(_, _, _, _)
ReplaceFrom(s, pat, rep, i) ==
    IF i > Len(s) THEN <<>>
    ELSE IF IsPrefixAt(s, pat, i)
         THEN rep \o ReplaceFrom(s, pat, rep, i + Len(pat))
         ELSE <<s[i]>> \o ReplaceFrom(s, pat, rep, i + 1)

\* s.replace(pat, rep), pat not empty: every non-overlapping occurrence, left to right
Replace(s, pat, rep) == ReplaceFrom(s, pat, rep, 1)

DigitVal ==
    [c \in {"0", "1", "2", "3", "4", "5", "6", "7", "8", "9"} |->
        CASE c = "0" -> 0 [] c = "1" -> 1 [] c = "2" -> 2 [] c = "3" -> 3
          [] c = "4" -> 4 [] c = "5" -> 5 [] c = "6" -> 6 [] c = "7" -> 7
          [] c = "8" -> 8 [] c = "9" -> 9]

IsDigit(c) == c \in DOMAIN DigitVal

RECURSIVE StripLeft(_)
StripLeft(s) ==
    IF Len(s) > 0 /\ s[1] = " " THEN StripLeft(Tail(s)) ELSE s

RECURSIVE StripRight(_)
StripRight(s) ==
    IF Len(s) > 0 /\ s[Len(s)] = " "
    THEN StripRight(SubSeq(s, 1, Len(s) - 1)) ELSE s

Strip(s) == StripRight(StripLeft(s))

RECURSIVE DigitsValue(_)
DigitsValue(s) ==
    IF Len(s) = 0 THEN 0
    ELSE 10 * DigitsValue(SubSeq(s, 1, Len(s) - 1)) + DigitVal[s[Len(s)]]

RECURSIVE Pow10(_)
Pow10(n) == IF n = 0 THEN 1 ELSE 10 * Pow10(n - 1)

\* float(s) for texts over the digits, ".", ",", "+", "-", the blank, "k" and
\* "m" (the characters of the distance texts): surrounding blanks are ignored,
\* then an optional sign, then digits with at most one "." and at least one
\* digit; any other text over these characters is a ValueError. The value is
\* mant / 10^scale.
ParseFloat(s) ==
    LET t == Strip(s)
        signed == Len(t) > 0 /\ t[1] \in {"-", "+"}
        body == IF signed THEN Tail(t) ELSE t
        dots == {i \in 1..Len(body) : body[i] = "."}
        digits == SelectSeq(body, IsDigit)
        wellformed ==
            /\ \A i \in 1..Len(body) : IsDigit(body[i]) \/ body[i] = "."
            /\ Cardinality(dots) <= 1
            /\ Len(digits) >= 1
        scale == IF dots = {} THEN 0
                 ELSE Len(body) - (CHOOSE i \in dots : TRUE)
        mag == DigitsValue(digits)
    IN  IF ~wellformed THEN Raise("ValueError")
        ELSE Return([mant |-> IF signed /\ t[1] = "-" THEN 0 - mag ELSE mag,
                     scale |-> scale])

\* num / den (den > 0) rounded to the nearest integer, ties to even
RoundHalfEven(num, den) ==
    LET q == num \div den
        r == num % den
    IN  IF 2 * r < den THEN q
        ELSE IF 2 * r > den THEN q + 1
        ELSE IF q % 2 = 0 THEN q ELSE q + 1

\* ---------------------------------------------------------------- bereken_co2
\* kilograms CO2 per kilometre, in thousandths
EMISSION_FACTORS ==
    [m \in {"auto", "vliegtuig", "trein", "boot"} |->
        CASE m = "auto" -> 192
          [] m = "vliegtuig" -> 255
          [] m = "trein" -> 41
          [] m = "boot" -> 115]

\* str.lower on the mode tags
Lower(s) ==
    CASE s = "Auto" -> "auto"
      [] s = "AUTO" -> "auto"
      [] s = "Trein" -> "trein"
      [] s = "TREIN" -> "trein"
      [] OTHER -> s

bereken_co2(distance_km, vervoermiddel) ==
    LET parsed == ParseFloat(Replace(Replace(distance_km, <<" ", "k", "m">>, <<>>),
                                     <<",">>, <<>>))
        mode == Lower(vervoermiddel)
    IN  IF parsed.kind = "raise" THEN parsed
        ELSE IF mode \notin DOMAIN EMISSION_FACTORS THEN Raise("ValueError")
        ELSE Return(RoundHalfEven(parsed.value.mant * EMISSION_FACTORS[mode],
                                  10 * Pow10(parsed.value.scale)))

\* ---------------------------------------------------------------- provider responses
\* What a provider may answer. An HTTP answer is [net |-> "ok", status_code, json]
\* (json left out when the body is no JSON); [net |-> "ConnectionError"] is
\* requests.get raising.
GOOGLE_MAPS_API_KEY == "API-key"

SERPAPI_API_KEY == "API-key"

Cities == {"Amsterdam", "Parijs", "Utrecht"}

Timestamps == {0, 1748728800}

DistanceTexts ==
    { <<"5", "0", "3", " ", "k", "m">>,
      <<"1", ",", "2", "3", "4", " ", "k", "m">>,
      <<"0", ".", "3", " ", "k", "m">>,
      <<"8", "5", "0", " ", "m">>,
      <<"-", "7", " ", "k", "m">> }

DurationTexts == {"5 hours 10 mins", "6 hours 42 mins"}

CarbonGrams == {62000, 95000, 128456, 0 - 5000}

Leg(dur, dist) == [duration |-> [text |-> dur], distance |-> [text |-> dist]]

DirectionsOk(dur, dist) ==
    [net |-> "ok", status_code |-> 200,
     json |-> [status |-> "OK", routes |-> << [legs |-> << Leg(dur, dist) >>] >>]]

DirectionsResponses ==
    { DirectionsOk(dur, dist) : dur \in DurationTexts, dist \in DistanceTexts }
    \cup
    { [net |-> "ok", status_code |-> 200,
       json |-> [status |-> "ZERO_RESULTS", routes |-> <<>>]],
      [net |-> "ok", status_code |-> 200,
       json |-> [status |-> "REQUEST_DENIED", routes |-> <<>>,
                 error_message |-> "The provided API key is invalid."]],
      [net |-> "ok", status_code |-> 200,
       json |-> [status |-> "OK", routes |-> <<>>]],
      [net |-> "ok", status_code |-> 200,
       json |-> [status |-> "OK",
                 routes |-> << [legs |-> << [duration |-> [text |-> "5 hours 10 mins"]] >>] >>]],
      [net |-> "ok", status_code |-> 200,
       json |-> [error_message |-> "Internal error"]],
      [net |-> "ok", status_code |-> 502],
      [net |-> "ConnectionError"] }

BestFlight(dur, grams, price) ==
    [flights |-> << [duration |-> dur] >>,
     carbon_emissions |-> [this_flight |-> grams],
     price |-> price]

FlightsOk(grams) ==
    [net |-> "ok", status_code |-> 200,
     json |-> [best_flights |-> << BestFlight(80, grams, 120) >>]]

FlightResponses ==
    { FlightsOk(g) : g \in CarbonGrams }
    \cup
    { [net |-> "ok", status_code |-> 200, json |-> [best_flights |-> <<>>]],
      [net |-> "ok", status_code |-> 200,
       json |-> [error |-> "Google Flights hasn't returned any results for this query."]],
      [net |-> "ok", status_code |-> 200,
       json |-> [best_flights |-> << [flights |-> << [duration |-> 80] >>, price |-> 120] >>]],
      [net |-> "ok", status_code |-> 200,
       json |-> [best_flights |->
                    << [flights |-> <<>>,
                        carbon_emissions |-> [this_flight |-> 62000],
                        price |-> 120] >>]],
      [net |-> "ok", status_code |-> 500],
      [net |-> "ok", status_code |-> 429,
       json |-> [best_flights |-> << BestFlight(80, 62000, 120) >>]],
      [net |-> "ConnectionError"] }

\* ---------------------------------------------------------------- get_route_data
RouteParams(o, d, mode, departure_time) ==
    IF mode = "transit" /\ departure_time # 0
    THEN [origin |-> o, destination |-> d, mode |-> mode,
          key |-> GOOGLE_MAPS_API_KEY, departure_time |-> departure_time]
    ELSE [origin |-> o, destination |-> d, mode |-> mode,
          key |-> GOOGLE_MAPS_API_KEY]

get_route_data(response) ==
    IF response.net # "ok" THEN Raise(response.net)
    ELSE IF "json" \notin DOMAIN response THEN Raise("JSONDecodeError")
    ELSE LET data == response.json IN
        IF "status" \notin DOMAIN data THEN Raise("KeyError")
        ELSE IF data.status = "OK" THEN
            IF "routes" \notin DOMAIN data THEN Raise("KeyError")
            ELSE IF Len(data.routes) = 0 THEN Raise("IndexError")
            ELSE IF "legs" \notin DOMAIN data.routes[1] THEN Raise("KeyError")
            ELSE IF Len(data.routes[1].legs) = 0 THEN Raise("IndexError")
            ELSE LET route == data.routes[1].legs[1] IN
                IF "duration" \notin DOMAIN route THEN Raise("KeyError")
                ELSE IF "text" \notin DOMAIN route.duration THEN Raise("KeyError")
                ELSE IF "distance" \notin DOMAIN route THEN Raise("KeyError")
                ELSE IF "text" \notin DOMAIN route.distance THEN Raise("KeyError")
                ELSE Return([duration |-> route.duration.text,
                             distance |-> route.distance.text])
        ELSE Return(None)

\* ---------------------------------------------------------------- get_flight_data
FlightParams(o_iata, d_iata) ==
    [engine |-> "google_flights", departure_id |-> o_iata, arrival_id |-> d_iata,
     gl |-> "nl", api_key |-> SERPAPI_API_KEY]

NVT == <<"N", ".", "V", ".", "T">>

FlightRecord(best) ==
    IF "flights" \notin DOMAIN best THEN Raise("KeyError")
    ELSE IF Len(best.flights) = 0 THEN Raise("IndexError")
    ELSE IF "carbon_emissions" \notin DOMAIN best THEN Raise("KeyError")
    ELSE IF "this_flight" \notin DOMAIN best.carbon_emissions THEN Raise("KeyError")
    ELSE IF "price" \notin DOMAIN best THEN Raise("KeyError")
    ELSE IF "duration" \notin DOMAIN best.flights[1] THEN Raise("KeyError")
    ELSE LET flight_duration_minutes == best.flights[1].duration
             hours == flight_duration_minutes \div 60
             minutes == flight_duration_minutes % 60
         IN  Return([type |-> "Vliegtuig",
                     time |-> ToString(hours) \o " hours " \o ToString(minutes) \o " mins",
                     distance |-> NVT,
                     cost |-> "EUR" \o ToString(best.price),
                     co2 |-> RoundHalfEven(100 * best.carbon_emissions.this_flight,
                                           1000)])

FlightBody(response) ==
    IF "json" \notin DOMAIN response THEN Raise("JSONDecodeError")
    ELSE LET data == response.json IN
        IF "best_flights" \in DOMAIN data /\ Len(data.best_flights) > 0
        THEN FlightRecord(data.best_flights[1])
        ELSE Return(None)

\* the status check left out
get_flight_data_any_status(response) ==
    IF response.net # "ok" THEN Raise(response.net)
    ELSE FlightBody(response)

get_flight_data(response) ==
    IF response.net # "ok" THEN Raise(response.net)
    ELSE IF response.status_code = 200 THEN FlightBody(response)
    ELSE Return(None)

\* ---------------------------------------------------------------- calculate_travel_options
BUS_CO2 == 9500

NoError == [type |-> "none", cause |-> "none"]

\* if flight_data: travel_options.append(flight_data) -- with the append forgotten
FlightStepNoAppend(opts, fd) == Return(opts)

\* if flight_data: travel_options.append(flight_data)
FlightStep(opts, fd) ==
    IF Truthy(fd) THEN Return(Append(opts, fd)) ELSE Return(opts)

\* if driving_data: ... append the Auto option
CarStep(opts, dd) ==
    IF Truthy(dd)
    THEN LET uitstoot == bereken_co2(dd.distance, "auto") IN
         IF uitstoot.kind = "raise" THEN uitstoot
         ELSE Return(Append(opts,
                 [type |-> "Auto", time |-> dd.duration, distance |-> dd.distance,
                  cost |-> "EUR0.25/km", co2 |-> uitstoot.value]))
    ELSE Return(opts)

\* the Trein option computed from the transit distance
TrainStepTransitDistance(opts, dd, td) ==
    IF Truthy(td)
    THEN IF dd = None THEN Raise("TypeError")
         ELSE LET uitstoot == bereken_co2(td.distance, "trein") IN
              IF uitstoot.kind = "raise" THEN uitstoot
              ELSE Return(Append(opts,
                      [type |-> "Trein", time |-> td.duration, distance |-> td.distance,
                       cost |-> "EUR10-EUR30", co2 |-> uitstoot.value]))
    ELSE Return(opts)

\* if transit_data: ... append the Trein option; driving_data['distance'] with
\* driving_data None is a TypeError
TrainStep(opts, dd, td) ==
    IF Truthy(td)
    THEN IF dd = None THEN Raise("TypeError")
         ELSE LET uitstoot == bereken_co2(dd.distance, "trein") IN
              IF uitstoot.kind = "raise" THEN uitstoot
              ELSE Return(Append(opts,
                      [type |-> "Trein", time |-> td.duration, distance |-> td.distance,
                       cost |-> "EUR10-EUR30", co2 |-> uitstoot.value]))
    ELSE Return(opts)

\* the Bus option appended only when there is driving data
BusStepGuarded(opts, dd) ==
    IF dd = None THEN Return(opts)
    ELSE Return(opts \o << [type |-> "Bus", time |-> dd.duration, distance |-> dd.distance,
                            cost |-> "EUR38", co2 |-> BUS_CO2] >>)

\* the Bus option with the emission of the car
BusStepComputed(opts, dd) ==
    IF dd = None THEN Raise("TypeError")
    ELSE LET uitstoot == bereken_co2(dd.distance, "auto") IN
         IF uitstoot.kind = "raise" THEN uitstoot
         ELSE Return(opts \o << [type |-> "Bus", time |-> dd.duration,
                                 distance |-> dd.distance,
                                 cost |-> "EUR38", co2 |-> uitstoot.value] >>)

\* travel_options.extend([{Bus ...}]); driving_data['duration'] with driving_data
\* None is a TypeError
BusStep(opts, dd) ==
    IF dd = None THEN Raise("TypeError")
    ELSE Return(opts \o << [type |-> "Bus", time |-> dd.duration, distance |-> dd.distance,
                            cost |-> "EUR38", co2 |-> BUS_CO2] >>)

RECURSIVE InsertByCo2(_, _)
InsertByCo2(s, x) ==
    IF Len(s) = 0 THEN <<x>>
    ELSE IF s[Len(s)].co2 <= x.co2 THEN Append(s, x)
    ELSE Append(InsertByCo2(SubSeq(s, 1, Len(s) - 1), x), s[Len(s)])

RECURSIVE SortedByCo2(_)
SortedByCo2(s) ==
    IF Len(s) = 0 THEN <<>>
    ELSE InsertByCo2(SortedByCo2(SubSeq(s, 1, Len(s) - 1)), s[Len(s)])

\* the sort left out
SortStepOmitted(opts) == opts

\* travel_options.sort(key=lambda x: x['co2']): a stable sort
SortStep(opts) == SortedByCo2(opts)

\* the exception swallowed and the options collected so far returned
ExceptReturnsPartial(opts, e, at) ==
    [pc |-> "returned", result |-> opts, error |-> NoError]

\* a failed provider call skipped and the next one issued
ExceptSkipsCall(opts, e, at) ==
    IF at = "flight_call" THEN [pc |-> "call_driving", result |-> <<>>, error |-> NoError]
    ELSE IF at = "driving_call" THEN [pc |-> "call_transit", result |-> <<>>, error |-> NoError]
    ELSE [pc |-> "raised", result |-> <<>>, error |-> [type |-> "Exception", cause |-> e]]

\* except Exception as e: raise Exception(f"Er ging iets mis ...: {e}");
\* the caller receives no list
Except(opts, e, at) ==
    [pc |-> "raised", result |-> <<>>, error |-> [type |-> "Exception", cause |-> e]]

\* ---------------------------------------------------------------- the state machine
Issue(api, params) == [ev |-> "issue", api |-> api, params |-> params]

Done(api, out, response) ==
    [ev |-> "done", api |-> api,
     how |-> IF out.kind = "raise" THEN "raise"
             ELSE IF Truthy(out.value) THEN "present" ELSE "absent",
     response |-> response]

Init ==
    /\ pc = "idle"
    /\ searches = 0
    /\ origin = ""
    /\ destination = ""
    /\ departure_timestamp = 0
    /\ origin_iata = NoCode
    /\ destination_iata = NoCode
    /\ flight_data = None
    /\ driving_data = None
    /\ transit_data = None
    /\ travel_options = <<>>
    /\ calls = <<>>
    /\ exc = "none"
    /\ raised_at = "none"
    /\ error = NoError
    /\ result = <<>>

\* an exception raised at step `at` of the try block reaches the except clause
Abort(e, at) ==
    LET h == Except(travel_options, e, at) IN
    /\ pc' = h.pc
    /\ result' = h.result
    /\ error' = h.error
    /\ exc' = e
    /\ raised_at' = at

\* search, request.method = 'GET': the empty results page
SearchGet ==
    /\ pc = "idle"
    /\ pc' = "rendered_get"
    /\ result' = <<>>
    /\ UNCHANGED <<searches, origin, destination, departure_timestamp, origin_iata,
                   destination_iata, flight_data, driving_data, transit_data,
                   travel_options, calls, exc, raised_at, error>>

\* search, request.method = 'POST', up to the call of calculate_travel_options
SearchPost(o, d, ts) ==
    /\ pc = "idle"
    /\ searches < MaxSearches
    /\ searches' = searches + 1
    /\ origin' = o
    /\ destination' = d
    /\ departure_timestamp' = ts
    /\ origin_iata' = get_iata_codes(o, d)[1]
    /\ destination_iata' = get_iata_codes(o, d)[2]
    /\ travel_options' = <<>>
    /\ pc' = "call_flight"
    /\ UNCHANGED <<flight_data, driving_data, transit_data, calls, exc, raised_at,
                   error, result>>

\* get_flight_data: requests.get is issued
IssueFlight ==
    /\ pc = "call_flight"
    /\ calls' = Append(calls, Issue("flight", FlightParams(origin_iata, destination_iata)))
    /\ pc' = "wait_flight"
    /\ UNCHANGED <<searches, origin, destination, departure_timestamp, origin_iata,
                   destination_iata, flight_data, driving_data, transit_data,
                   travel_options, exc, raised_at, error, result>>

\* get_flight_data returns or raises; the Vliegtuig step
FlightResponse(response) ==
    /\ pc = "wait_flight"
    /\ LET out == get_flight_data(response) IN
       /\ calls' = Append(calls, Done("flight", out, response))
       /\ IF out.kind = "raise"
          THEN /\ Abort(out.exc, "flight_call")
               /\ UNCHANGED <<flight_data, travel_options>>
          ELSE /\ flight_data' = out.value
               /\ travel_options' = FlightStep(travel_options, out.value).value
               /\ pc' = "call_driving"
               /\ UNCHANGED <<exc, raised_at, error, result>>
    /\ UNCHANGED <<searches, origin, destination, departure_timestamp, origin_iata,
                   destination_iata, driving_data, transit_data>>

\* get_route_data(..., "driving", ...): requests.get is issued
IssueDriving ==
    /\ pc = "call_driving"
    /\ calls' = Append(calls, Issue("driving",
                    RouteParams(origin, destination, "driving", departure_timestamp)))
    /\ pc' = "wait_driving"
    /\ UNCHANGED <<searches, origin, destination, departure_timestamp, origin_iata,
                   destination_iata, flight_data, driving_data, transit_data,
                   travel_options, exc, raised_at, error, result>>

\* get_route_data(driving) returns or raises; the Auto step
DrivingResponse(response) ==
    /\ pc = "wait_driving"
    /\ LET out == get_route_data(response) IN
       /\ calls' = Append(calls, Done("driving", out, response))
       /\ IF out.kind = "raise"
          THEN /\ Abort(out.exc, "driving_call")
               /\ UNCHANGED <<driving_data, travel_options>>
          ELSE /\ driving_data' = out.value
               /\ LET step == CarStep(travel_options, out.value) IN
                  IF step.kind = "raise"
                  THEN /\ Abort(step.exc, "car")
                       /\ UNCHANGED travel_options
                  ELSE /\ travel_options' = step.value
                       /\ pc' = "call_transit"
                       /\ UNCHANGED <<exc, raised_at, error, result>>
    /\ UNCHANGED <<searches, origin, destination, departure_timestamp, origin_iata,
                   destination_iata, flight_data, transit_data>>

\* get_route_data(..., "transit", ...): requests.get is issued
IssueTransit ==
    /\ pc = "call_transit"
    /\ calls' = Append(calls, Issue("transit",
                    RouteParams(origin, destination, "transit", departure_timestamp)))
    /\ pc' = "wait_transit"
    /\ UNCHANGED <<searches, origin, destination, departure_timestamp, origin_iata,
                   destination_iata, flight_data, driving_data, transit_data,
                   travel_options, exc, raised_at, error, result>>

\* get_route_data(transit) returns or raises; the Trein step
TransitResponse(response) ==
    /\ pc = "wait_transit"
    /\ LET out == get_route_data(response) IN
       /\ calls' = Append(calls, Done("transit", out, response))
       /\ IF out.kind = "raise"
          THEN /\ Abort(out.exc, "transit_call")
               /\ UNCHANGED <<transit_data, travel_options>>
          ELSE /\ transit_data' = out.value
               /\ LET step == TrainStep(travel_options, driving_data, out.value) IN
                  IF step.kind = "raise"
                  THEN /\ Abort(step.exc, "train")
                       /\ UNCHANGED travel_options
                  ELSE /\ travel_options' = step.value
                       /\ pc' = "bus"
                       /\ UNCHANGED <<exc, raised_at, error, result>>
    /\ UNCHANGED <<searches, origin, destination, departure_timestamp, origin_iata,
                   destination_iata, flight_data, driving_data>>

\* the Bus step
AppendBus ==
    /\ pc = "bus"
    /\ LET step == BusStep(travel_options, driving_data) IN
       IF step.kind = "raise"
       THEN /\ Abort(step.exc, "bus")
            /\ UNCHANGED travel_options
       ELSE /\ travel_options' = step.value
            /\ pc' = "sort"
            /\ UNCHANGED <<exc, raised_at, error, result>>
    /\ UNCHANGED <<searches, origin, destination, departure_timestamp, origin_iata,
                   destination_iata, flight_data, driving_data, transit_data, calls>>

\* the sort, return travel_options, and the results page rendered from it
SortAndReturn ==
    /\ pc = "sort"
    /\ travel_options' = SortStep(travel_options)
    /\ result' = SortStep(travel_options)
    /\ pc' = "returned"
    /\ UNCHANGED <<searches, origin, destination, departure_timestamp, origin_iata,
                   destination_iata, flight_data, driving_data, transit_data, calls,
                   exc, raised_at, error>>

\* the request is over; the next one starts from fresh locals
Finish ==
    /\ pc \in {"returned", "raised", "rendered_get"}
    /\ pc' = "idle"
    /\ origin' = ""
    /\ destination' = ""
    /\ departure_timestamp' = 0
    /\ origin_iata' = NoCode
    /\ destination_iata' = NoCode
    /\ flight_data' = None
    /\ driving_data' = None
    /\ transit_data' = None
    /\ travel_options' = <<>>
    /\ calls' = <<>>
    /\ exc' = "none"
    /\ raised_at' = "none"
    /\ error' = NoError
    /\ result' = <<>>
    /\ UNCHANGED searches

Next ==
    \/ SearchGet
    \/ \E o \in Cities, d \in Cities, ts \in Timestamps : SearchPost(o, d, ts)
    \/ IssueFlight
    \/ \E response \in FlightResponses : FlightResponse(response)
    \/ IssueDriving
    \/ \E response \in DirectionsResponses : DrivingResponse(response)
    \/ IssueTransit
    \/ \E response \in DirectionsResponses : TransitResponse(response)
    \/ AppendBus
    \/ SortAndReturn
    \/ Finish

Spec == Init /\ [][Next]_vars

\* ---------------------------------------------------------------- vocabulary of the properties
Finished == pc \in {"returned", "raised"}

DoneEvents(api) ==
    {i \in 1..Len(calls) : calls[i].ev = "done" /\ calls[i].api = api}

IssueEvents(api) ==
    {i \in 1..Len(calls) : calls[i].ev = "issue" /\ calls[i].api = api}

\* how the call to a provider ended: "present", "absent", "raise", or "pending"
How(api) ==
    IF DoneEvents(api) = {} THEN "pending"
    ELSE calls[CHOOSE i \in DoneEvents(api) : TRUE].how

\* the provider's answer to the call
Answer(api) == calls[CHOOSE i \in DoneEvents(api) : TRUE].response

Has(kind) == \E i \in 1..Len(result) : result[i].type = kind

Count(kind) == Cardinality({i \in 1..Len(result) : result[i].type = kind})

OptionOf(kind) == result[CHOOSE i \in 1..Len(result) : result[i].type = kind]

Kinds == {"Vliegtuig", "Auto", "Trein", "Bus"}

KindOf(api) ==
    CASE api = "flight" -> "Vliegtuig"
      [] api = "driving" -> "Auto"
      [] api = "transit" -> "Trein"

CallSequence == <<"flight", "driving", "transit">>

\* C1: every list calculate_travel_options returns is sorted non-decreasing by co2.
C1_SortedByCo2 ==
    pc = "returned" =>
        \A i \in 1..(Len(result) - 1) : result[i].co2 <= result[i + 1].co2

\* a returned list of four options that the sort had to reorder
C1_Witness ==
    /\ pc = "returned"
    /\ Len(result) = 4
    /\ result[1].type = "Trein"
    /\ result[4].type = "Auto"
    /\ Has("Vliegtuig")

\* C2: flight, driving and transit all absent: the call still returns a list
\* holding exactly the Bus option.
C2_BusOnly ==
    (/\ Finished
     /\ How("flight") = "absent"
     /\ How("driving") = "absent"
     /\ How("transit") = "absent")
    => (pc = "returned" /\ Len(result) = 1 /\ result[1].type = "Bus")

\* C3: in a returned list the Vliegtuig, Auto and Trein options are present
\* exactly when the flight, driving and transit lookups returned data.
C3_PresentIffData ==
    pc = "returned" =>
        /\ \A api \in {"flight", "driving", "transit"} :
              Has(KindOf(api)) <=> How(api) = "present"
        /\ Has("Vliegtuig") <=> Truthy(flight_data)
        /\ Has("Auto") <=> Truthy(driving_data)
        /\ Has("Trein") <=> Truthy(transit_data)

\* a returned list from which the flight is left out and the train is not
C3_Witness ==
    /\ pc = "returned"
    /\ How("flight") = "absent"
    /\ How("transit") = "present"
    /\ ~Has("Vliegtuig")
    /\ Has("Trein")

\* C4: an exception raised in the try block ends the call in the one wrapped
\* error carrying its cause, and the caller receives no list; a returned list
\* means no exception was raised.
C4_AtomicOnFailure ==
    /\ exc # "none" =>
          /\ pc = "raised"
          /\ result = <<>>
          /\ error = [type |-> "Exception", cause |-> exc]
    /\ pc = "returned" => exc = "none" /\ error = NoError

\* bereken_co2 fails on the driving distance after the flight was collected
C4_Witness ==
    /\ pc = "raised"
    /\ exc = "ValueError"
    /\ raised_at = "car"
    /\ Len(travel_options) = 1
    /\ travel_options[1].type = "Vliegtuig"

\* an HTTP answer that is no well-formed success: a non-success status, or a
\* success status with an unexpected payload
ProviderFailure(api) ==
    /\ Answer(api).net = "ok"
    /\ IF api = "flight"
       THEN Answer(api) \notin {FlightsOk(g) : g \in CarbonGrams}
       ELSE Answer(api) \notin
                {DirectionsOk(dur, dist) : dur \in DurationTexts, dist \in DistanceTexts}

\* a well-formed success whose distance bereken_co2 can parse
CleanAnswer(api) ==
    /\ How(api) = "present"
    /\ api = "driving" => bereken_co2(driving_data.distance, "auto").kind = "return"

\* C5: a provider-level failure of a single external call (the other calls
\* answering well) is absorbed: the call returns, without that option.
C5_ProviderFailureAbsorbed ==
    \A api \in {"flight", "driving", "transit"} :
        (/\ Finished
         /\ How(api) # "pending"
         /\ ProviderFailure(api)
         /\ \A other \in {"flight", "driving", "transit"} \ {api} :
               How(other) # "pending" => CleanAnswer(other))
        => (pc = "returned" /\ ~Has(KindOf(api)))

IataAbsent == origin_iata = NoCode \/ destination_iata = NoCode

\* the flight provider answered with a non-200 status or without best flights
NoFlightsAnswered ==
    /\ How("flight") # "pending"
    /\ Answer("flight").net = "ok"
    /\ \/ Answer("flight").status_code # 200
       \/ /\ "json" \in DOMAIN Answer("flight")
          /\ \/ "best_flights" \notin DOMAIN Answer("flight").json
             \/ Len(Answer("flight").json.best_flights) = 0

\* C6 as stated: an absent IATA code means no Vliegtuig option in the result,
\* whatever the flight provider answers.
C6_NoFlightWithoutIata ==
    (pc = "returned" /\ IataAbsent) => ~Has("Vliegtuig")

\* C6 amended: with an absent IATA code the flight lookup is still issued, with
\* the absent code as parameter, and the result has no Vliegtuig option when
\* the provider answers with a non-200 status or without best flights.
C6_NoFlightIfProviderDeclines ==
    /\ (IataAbsent /\ pc \notin {"idle", "call_flight", "rendered_get"}) =>
          /\ Len(calls) >= 1
          /\ calls[1] = Issue("flight", FlightParams(get_iata_code(origin),
                                                     get_iata_code(destination)))
    /\ (pc = "returned" /\ IataAbsent /\ NoFlightsAnswered) => ~Has("Vliegtuig")

\* an unknown origin, a provider that declines, and the other options returned
C6_Witness ==
    /\ pc = "returned"
    /\ origin = "Utrecht"
    /\ origin_iata = NoCode
    /\ calls[1].params.departure_id = NoCode
    /\ Answer("flight").net = "ok"
    /\ Answer("flight").status_code = 429
    /\ ~Has("Vliegtuig")
    /\ Len(result) = 3

NonNegativeInputs ==
    /\ Truthy(flight_data) =>
          Answer("flight").json.best_flights[1].carbon_emissions.this_flight >= 0
    /\ Truthy(driving_data) =>
          (Len(driving_data.distance) = 0 \/ driving_data.distance[1] # "-")

\* C7: a returned list has at most 4 options, each kind at most once, every
\* option with a co2 figure, non-negative when the provider's distances and
\* carbon figures are; the Bus option has co2 95.0.
C7_WellFormedResult ==
    pc = "returned" =>
        /\ Len(result) <= 4
        /\ \A i \in 1..Len(result) :
              /\ result[i].type \in Kinds
              /\ "co2" \in DOMAIN result[i]
              /\ result[i].co2 \in Int
              /\ NonNegativeInputs => result[i].co2 >= 0
              /\ result[i].type = "Bus" => result[i].co2 = BUS_CO2
        /\ \A kind \in Kinds : Count(kind) <= 1

\* all four options, from non-negative figures
C7_Witness ==
    /\ pc = "returned"
    /\ Len(result) = 4
    /\ NonNegativeInputs
    /\ Has("Bus")
    /\ OptionOf("Bus").co2 = 9500
    /\ OptionOf("Auto").co2 = 23693

\* C8: the Trein option's co2 is bereken_co2 of the driving distance with mode
\* trein, its time and distance are the transit route's.
C8_TrainUsesDrivingDistance ==
    (pc = "returned" /\ How("transit") = "present") =>
        /\ Count("Trein") = 1
        /\ OptionOf("Trein").co2 = bereken_co2(driving_data.distance, "trein").value
        /\ OptionOf("Trein").time = transit_data.duration
        /\ OptionOf("Trein").distance = transit_data.distance

\* transit 503 km, driving 1,234 km: the Trein co2 is that of 1,234 km
C8_Witness ==
    /\ pc = "returned"
    /\ How("transit") = "present"
    /\ transit_data.distance = <<"5", "0", "3", " ", "k", "m">>
    /\ driving_data.distance = <<"1", ",", "2", "3", "4", " ", "k", "m">>
    /\ transit_data.duration # driving_data.duration
    /\ OptionOf("Trein").co2 = 5059
    /\ OptionOf("Trein").distance = <<"5", "0", "3", " ", "k", "m">>

\* C9: the calls are issued in the order flight, driving, transit, each at most
\* once, each only after the one before it completed, and none after a call
\* that raised.
C9_SequentialCalls ==
    /\ Len(calls) <= 2 * Len(CallSequence)
    /\ \A i \in 1..Len(calls) :
          /\ i <= 2 * Len(CallSequence)
          /\ calls[i].api = CallSequence[(i + 1) \div 2]
          /\ calls[i].ev = (IF i % 2 = 1 THEN "issue" ELSE "done")
          /\ (calls[i].ev = "done" /\ calls[i].how = "raise") => i = Len(calls)
    /\ \A api \in {"flight", "driving", "transit"} :
          /\ Cardinality(IssueEvents(api)) <= 1
          /\ Cardinality(DoneEvents(api)) <= 1

\* all three calls issued and completed, in order
C9_Witness ==
    /\ pc = "returned"
    /\ Len(calls) = 6
    /\ calls[3].api = "driving"
    /\ calls[5].api = "transit"
    /\ "departure_time" \in DOMAIN calls[5].params

\* C10: a list is returned only if the driving lookup returned data; when it
\* returned absent the call raises the wrapped error, after all three calls
\* were issued: at the Bus step when transit is absent too, at the Trein step
\* when transit is present.
C10_DrivingRequired ==
    /\ pc \in {"sort", "returned"} => How("driving") = "present"
    /\ (Finished /\ How("driving") = "absent") =>
          /\ pc = "raised"
          /\ error = [type |-> "Exception", cause |-> "TypeError"] \/ raised_at = "transit_call"
          /\ \A api \in {"flight", "driving", "transit"} : IssueEvents(api) # {}
          /\ How("transit") = "absent" => raised_at = "bus"
          /\ How("transit") = "present" => raised_at = "train"

\* the flight was found, driving and transit were not: the call raises at the Bus step
C10_Witness ==
    /\ pc = "raised"
    /\ How("flight") = "present"
    /\ How("driving") = "absent"
    /\ How("transit") = "absent"
    /\ raised_at = "bus"
    /\ exc = "TypeError"

====
